---------------------------- MODULE Spec2Model ----------------------------
(***************************************************************************)
(* Players of players.py: manual_player, minmax_player, random_player,     *)
(* alpha_beta_player and alpha_beta_cutoff_player, run against a Game      *)
(* Interface whose games are finite trees.                                 *)
(***************************************************************************)
EXTENDS Integers, Sequences, FiniteSets, TLC

(***************************************************************************)
(* Bounds of the model.                                                    *)
(***************************************************************************)
\* Largest number of states (nodes) of a game tree.
MaxNodes == 6
\* Number of distinct utilities: terminal states pay -1 .. UtilLevels - 2.
UtilLevels == 3
\* Longest line of text typed at manual_player's prompt.
MaxInputLen == 4
\* Most prompts of one manual_player call the model follows.
MaxPrompts == 2
\* Largest depth argument handed to alpha_beta_cutoff_player.
MaxDepthArg == 4

(***************************************************************************)
(* The Game Interface (game.actions, game.result, game.terminal_test,      *)
(* game.utility, game.to_move).  A state is a node of a game tree:         *)
(*   term  - terminal_test(state)                                          *)
(*   util  - utility(state, "X"); zero-sum: utility(state, "O") = -util    *)
(*   kids  - the successor states, in the order of actions(state)          *)
(*   mover - to_move(state)                                                *)
(***************************************************************************)
Players == {"X", "O"}

Other(p) == IF p = "X" THEN "O" ELSE "X"

Utilities == (0 - 1) .. (UtilLevels - 2)

\* np.inf and -np.inf: beyond every utility of either player.
PosInf == UtilLevels

NegInf == 0 - UtilLevels

\* The k-th legal move, a (row, col) tuple of a board two cells wide.
ActionOf(k) == <<(k - 1) \div 2, (k - 1) % 2>>

RECURSIVE ShapeTable(_, _, _, _)
\* Tree shapes by size: T[k] the shapes of k nodes, F[k] the forests of k
\* nodes in all.  A shape is the sequence of the shapes of its children.
ShapeTable(k, n, T, F) ==
    IF k > n
    THEN [T |-> T, F |-> F]
    ELSE LET Tk == IF k = 1 THEN {<<>>} ELSE F[k - 1]
             T2 == Append(T, Tk)
             Fk == UNION {{<<t>> \o f : t \in T2[j],
                                        f \in (IF k = j THEN {<<>>} ELSE F[k - j])} :
                             j \in 1..k}
         IN  ShapeTable(k + 1, n, T2, Append(F, Fk))

\* The tree shapes of at most n nodes.
Shapes(n) == UNION {ShapeTable(1, n, <<>>, <<>>).T[k] : k \in 1..n}

RECURSIVE NLeaves(_), NLeavesFrom(_, _)
NLeaves(sh) == IF Len(sh) = 0 THEN 1 ELSE NLeavesFrom(sh, 1)

NLeavesFrom(sh, i) ==
    IF i > Len(sh) THEN 0 ELSE NLeaves(sh[i]) + NLeavesFrom(sh, i + 1)

\* What a state without legal actions may be: terminal with a utility, or,
\* when the Game Interface breaks its contract (dead), not terminal: PosInf
\* marks that.
LeafLabels(dead) == Utilities \cup (IF dead THEN {PosInf} ELSE {})

RECURSIVE Labelled(_, _, _, _), LabelledKids(_, _, _, _, _)
\* The game of shape sh, p to move at its root and the players alternating,
\* whose states without actions are lab[at], lab[at + 1], ... in order.
Labelled(sh, lab, at, p) ==
    IF Len(sh) = 0
    THEN [term |-> lab[at] \in Utilities,
          util |-> IF lab[at] \in Utilities THEN lab[at] ELSE 0,
          kids |-> <<>>, mover |-> p]
    ELSE [term |-> FALSE, util |-> 0,
          kids |-> LabelledKids(sh, lab, at, Other(p), 1), mover |-> p]

LabelledKids(sh, lab, at, p, i) ==
    IF i > Len(sh)
    THEN <<>>
    ELSE <<Labelled(sh[i], lab, at, p)>>
             \o LabelledKids(sh, lab, at + NLeaves(sh[i]), p, i + 1)

\* state is a game of at most n states.
IsGame(s, n, dead) ==
    \E sh \in Shapes(n) : \E lab \in [1..NLeaves(sh) -> LeafLabels(dead)] :
        \E p \in Players : s = Labelled(sh, lab, 1, p)

actions(s) == [k \in 1..Len(s.kids) |-> ActionOf(k)]

\* game.result(state, a): the successor by legal move a.
result(s, a) == s.kids[CHOOSE k \in 1..Len(s.kids) : ActionOf(k) = a]

terminal_test(s) == s.term

utility(s, p) == IF p = "X" THEN s.util ELSE 0 - s.util

to_move(s) == s.mover

(***************************************************************************)
(* Python values.                                                          *)
(***************************************************************************)
None == [kind |-> "None", val |-> <<>>]

Some(a) == [kind |-> "action", val |-> a]

\* max(a, b)
Max(a, b) == IF b > a THEN b ELSE a

\* A min that keeps the larger value.
MinKeepsLarger(a, b) == IF b > a THEN b ELSE a

\* min(a, b)
Min(a, b) == IF b < a THEN b ELSE a

(***************************************************************************)
(* What one evaluation reports besides its value v:                        *)
(*   evals  - the number of game.utility calls made                        *)
(*   ups    - the players passed to game.utility                           *)
(*   cuts   - the number of early returns (v >= beta, v <= alpha)          *)
(*   pruned - the number of terminal states below the siblings skipped     *)
(*            by those early returns                                       *)
(***************************************************************************)
NoTrace == [evals |-> 0, ups |-> {}, cuts |-> 0, pruned |-> 0]

Join(t, r) ==
    [evals |-> t.evals + r.evals, ups |-> t.ups \cup r.ups,
     cuts |-> t.cuts + r.cuts, pruned |-> t.pruned + r.pruned]

\* A utility looked up for whoever is to move at the terminal state.
UtilityPlayerOfState(s, player) == to_move(s)

\* The player argument of game.utility(state, player) inside the searches:
\* the enclosing call's `player`.
UtilityPlayer(s, player) == player

\* `return game.utility(state, player)`
UtilityReturn(s, player) ==
    [v |-> utility(s, UtilityPlayer(s, player)),
     evals |-> 1, ups |-> {UtilityPlayer(s, player)}, cuts |-> 0, pruned |-> 0]

(***************************************************************************)
(* minmax_player                                                           *)
(***************************************************************************)
RECURSIVE mm_max_value(_, _), mm_min_value(_, _),
          mm_max_loop(_, _, _, _), mm_min_loop(_, _, _, _)

mm_max_value(s, player) ==
    IF terminal_test(s)
    THEN UtilityReturn(s, player)
    ELSE mm_max_loop(s, player, 1, [v |-> NegInf] @@ NoTrace)

mm_max_loop(s, player, i, acc) ==
    IF i > Len(actions(s))
    THEN acc
    ELSE LET r == mm_min_value(result(s, actions(s)[i]), player)
         IN  mm_max_loop(s, player, i + 1, [v |-> Max(acc.v, r.v)] @@ Join(acc, r))

mm_min_value(s, player) ==
    IF terminal_test(s)
    THEN UtilityReturn(s, player)
    ELSE mm_min_loop(s, player, 1, [v |-> PosInf] @@ NoTrace)

mm_min_loop(s, player, i, acc) ==
    IF i > Len(actions(s))
    THEN acc
    ELSE LET r == mm_max_value(result(s, actions(s)[i]), player)
         IN  mm_min_loop(s, player, i + 1, [v |-> Min(acc.v, r.v)] @@ Join(acc, r))

RECURSIVE mm_keys(_, _, _)
\* The keys of root actions i, i + 1, ...: what the lambda
\* `min_value(game.result(state, a))` evaluates to, in the order max() asks.
mm_keys(s, player, i) ==
    IF i > Len(actions(s))
    THEN <<>>
    ELSE <<mm_min_value(result(s, actions(s)[i]), player)>> \o mm_keys(s, player, i + 1)

\* A max() that keeps the last of the elements with the greatest key.
PyMaxLast(keys) ==
    CHOOSE i \in 1..Len(keys) :
        /\ \A j \in 1..Len(keys) : keys[j].v <= keys[i].v
        /\ \A j \in (i + 1)..Len(keys) : keys[j].v < keys[i].v

\* Python's max(iterable, key=...): the position of the first element whose
\* key is greatest.
PyMax(keys) ==
    CHOOSE i \in 1..Len(keys) :
        /\ \A j \in 1..Len(keys) : keys[j].v <= keys[i].v
        /\ \A j \in 1..(i - 1) : keys[j].v < keys[i].v

RECURSIVE JoinAll(_, _)
\* What the evaluations of keys i, i + 1, ... report together.
JoinAll(keys, i) ==
    IF i > Len(keys) THEN NoTrace ELSE Join(keys[i], JoinAll(keys, i + 1))

\* minmax_player(game, state): max() of an empty sequence raises ValueError.
minmax_player(s) ==
    IF Len(actions(s)) = 0
    THEN [status |-> "raised", ret |-> None, trace |-> NoTrace]
    ELSE LET keys == mm_keys(s, to_move(s), 1)
         IN  [status |-> "returned",
              ret |-> Some(actions(s)[PyMax(keys)]),
              trace |-> JoinAll(keys, 1)]

(***************************************************************************)
(* alpha_beta_player                                                       *)
(***************************************************************************)
RECURSIVE ab_max_value(_, _, _, _), ab_min_value(_, _, _, _),
          ab_max_loop(_, _, _, _, _, _), ab_min_loop(_, _, _, _, _, _),
          SkippedBelow(_, _, _)

\* The terminal states below the actions after the i-th of s.
SkippedBelow(s, player, i) ==
    IF i >= Len(actions(s))
    THEN 0
    ELSE mm_max_value(result(s, actions(s)[i + 1]), player).evals + SkippedBelow(s, player, i + 1)

\* `if v >= beta: return v`
BetaCutoff(v, beta) == v >= beta

\* `if v <= alpha: return v`
AlphaCutoff(v, alpha) == v <= alpha

ab_max_value(s, player, alpha, beta) ==
    IF terminal_test(s)
    THEN UtilityReturn(s, player)
    ELSE ab_max_loop(s, player, alpha, beta, 1, [v |-> NegInf] @@ NoTrace)

\* A loop that notes the cutoff and goes on to the next action.
ab_max_loop_no_return(s, player, alpha, beta, i, acc) ==
    IF i > Len(actions(s))
    THEN acc
    ELSE LET r == ab_min_value(result(s, actions(s)[i]), player, alpha, beta)
             v == Max(acc.v, r.v)
             t == Join(acc, r)
             c == IF BetaCutoff(v, beta)
                  THEN [t EXCEPT !.cuts = @ + 1,
                                 !.pruned = @ + SkippedBelow(s, player, i)]
                  ELSE t
         IN  ab_max_loop(s, player, Max(alpha, v), beta, i + 1, [v |-> v] @@ c)

ab_max_loop(s, player, alpha, beta, i, acc) ==
    IF i > Len(actions(s))
    THEN acc
    ELSE LET r == ab_min_value(result(s, actions(s)[i]), player, alpha, beta)
             v == Max(acc.v, r.v)
             t == Join(acc, r)
         IN  IF BetaCutoff(v, beta)
             THEN [v |-> v] @@ [t EXCEPT !.cuts = @ + 1,
                                         !.pruned = @ + SkippedBelow(s, player, i)]
             ELSE ab_max_loop(s, player, Max(alpha, v), beta, i + 1, [v |-> v] @@ t)

ab_min_value(s, player, alpha, beta) ==
    IF terminal_test(s)
    THEN UtilityReturn(s, player)
    ELSE ab_min_loop(s, player, alpha, beta, 1, [v |-> PosInf] @@ NoTrace)

ab_min_loop(s, player, alpha, beta, i, acc) ==
    IF i > Len(actions(s))
    THEN acc
    ELSE LET r == ab_max_value(result(s, actions(s)[i]), player, alpha, beta)
             v == Min(acc.v, r.v)
             t == Join(acc, r)
         IN  IF AlphaCutoff(v, alpha)
             THEN [v |-> v] @@ [t EXCEPT !.cuts = @ + 1,
                                         !.pruned = @ + SkippedBelow(s, player, i)]
             ELSE ab_min_loop(s, player, alpha, Min(beta, v), i + 1, [v |-> v] @@ t)

\* A root loop that also adopts an action that only ties.
RootAdoptsOnTie(v, best) == v >= best

\* `if v > best_score:` of the root loop.
RootAdopts(v, best) == v > best

\* The locals of alpha_beta_player before its root loop, lines 127-130.
ab_root_init ==
    [alpha |-> NegInf, beta |-> PosInf, best_score |-> NegInf,
     best_action |-> None, v |-> NegInf, trace |-> NoTrace]

\* A root loop that forgets `alpha = max(alpha, v)`.
ab_root_step_stale_alpha(s, pl, loc, i) ==
    LET a == actions(s)[i]
        r == ab_min_value(result(s, a), pl, loc.alpha, loc.beta)
        adopt == RootAdopts(r.v, loc.best_score)
    IN  [alpha |-> loc.alpha,
         beta |-> loc.beta,
         best_score |-> IF adopt THEN r.v ELSE loc.best_score,
         best_action |-> IF adopt THEN Some(a) ELSE loc.best_action,
         v |-> r.v,
         trace |-> Join(loc.trace, r)]

\* The i-th iteration of `for a in game.actions(state)`, lines 131-136.
ab_root_step(s, pl, loc, i) ==
    LET a == actions(s)[i]
        r == ab_min_value(result(s, a), pl, loc.alpha, loc.beta)
        adopt == RootAdopts(r.v, loc.best_score)
    IN  [alpha |-> Max(loc.alpha, r.v),
         beta |-> loc.beta,
         best_score |-> IF adopt THEN r.v ELSE loc.best_score,
         best_action |-> IF adopt THEN Some(a) ELSE loc.best_action,
         v |-> r.v,
         trace |-> Join(loc.trace, r)]

RECURSIVE ab_root_loop(_, _, _, _)
ab_root_loop(s, pl, loc, i) ==
    IF i > Len(actions(s))
    THEN loc
    ELSE ab_root_loop(s, pl, ab_root_step(s, pl, loc, i), i + 1)

\* alpha_beta_player(game, state): the locals at `return best_action`.
alpha_beta_player(s) == ab_root_loop(s, to_move(s), ab_root_init, 1)

(***************************************************************************)
(* manual_player: the text typed at the prompt is a sequence of characters.*)
(***************************************************************************)
Chars == {"0", "1", ",", "-", " ", "x"}

Inputs == UNION {[1..n -> Chars] : n \in 0..MaxInputLen}

\* The value of a decimal digit, -1 for any other character.
DigitValue(c) == CASE c = "0" -> 0 [] c = "1" -> 1 [] OTHER -> 0 - 1

RECURSIVE SplitFrom(_, _, _)
\* str.split(','): the pieces between the commas; cur is the piece begun.
SplitFrom(str, i, cur) ==
    IF i > Len(str)
    THEN <<cur>>
    ELSE IF str[i] = ","
         THEN <<cur>> \o SplitFrom(str, i + 1, <<>>)
         ELSE SplitFrom(str, i + 1, Append(cur, str[i]))

Split(str) == SplitFrom(str, 1, <<>>)

RECURSIVE Strip(_), DecimalValue(_)
\* str.strip(): int() ignores blanks around the number.
Strip(str) ==
    IF Len(str) = 0 THEN str
    ELSE IF str[1] = " " THEN Strip(Tail(str))
    ELSE IF str[Len(str)] = " " THEN Strip(SubSeq(str, 1, Len(str) - 1))
    ELSE str

DecimalValue(digits) ==
    IF Len(digits) = 0
    THEN 0
    ELSE 10 * DecimalValue(SubSeq(digits, 1, Len(digits) - 1))
           + DigitValue(digits[Len(digits)])

\* int(v): blanks around, an optional sign, then one or more digits; anything
\* else raises ValueError.
PyInt(piece) ==
    LET body == Strip(piece)
        neg == Len(body) > 0 /\ body[1] = "-"
        digits == IF neg THEN Tail(body) ELSE body
        ok == /\ Len(digits) > 0
              /\ \A k \in 1..Len(digits) : DigitValue(digits[k]) >= 0
    IN  [ok |-> ok,
         val |-> IF ~ok THEN 0
                 ELSE IF neg THEN 0 - DecimalValue(digits) ELSE DecimalValue(digits)]

\* Lines 35-37: tuple(int(v) for v in action.split(',')); ok is whether no
\* exception was raised.
ParseMove(str) ==
    LET pieces == Split(str)
        ok == \A k \in 1..Len(pieces) : PyInt(pieces[k]).ok
    IN  [ok |-> ok,
         val |-> IF ok THEN [k \in 1..Len(pieces) |-> PyInt(pieces[k]).val] ELSE <<>>]

\* `action in actions`
InActions(a, acts) == \E k \in 1..Len(acts) : acts[k] = a

\* A loop body that returns whatever parses.
manual_try_unchecked(s, inp) ==
    LET parsed == ParseMove(inp)
    IN  IF ~parsed.ok
        THEN [pc |-> "loop", ret |-> None, printed |-> 1]
        ELSE [pc |-> "returned", ret |-> Some(parsed.val), printed |-> 0]

\* One turn of `while True`, lines 33-43, on the text inp: an exception and
\* an illegal move both print 'invalid action!!' and loop.
manual_try(s, inp) ==
    LET parsed == ParseMove(inp)
    IN  IF ~parsed.ok
        THEN [pc |-> "loop", ret |-> None, printed |-> 1]
        ELSE IF ~InActions(parsed.val, actions(s))
             THEN [pc |-> "loop", ret |-> None, printed |-> 1]
             ELSE [pc |-> "returned", ret |-> Some(parsed.val), printed |-> 0]

(***************************************************************************)
(* alpha_beta_cutoff_player                                                *)
(***************************************************************************)
\* `depth=3`
DefaultDepth == 3

\* A player that drops the caller's depth.
cutoff_depth_ignored(given, d) == DefaultDepth

\* The depth handed to game.alpha_beta_cutoff_search: the caller's if given.
cutoff_depth(given, d) == IF given THEN d ELSE DefaultDepth

\* What game.alpha_beta_cutoff_search may return.
SearchResults(s) == {None} \cup {Some(actions(s)[k]) : k \in 1..Len(actions(s))}

(***************************************************************************)
(* The state of one decision call.                                         *)
(***************************************************************************)
VARIABLES
    state,        \* the state argument of the call
    call,         \* the function called, "none" before the call
    pc,           \* "idle", "loop", "try" (inside the function), "returned", "raised"
    ret,          \* the value returned
    player,       \* the local `player`
    toMoveLog,    \* the states game.to_move has been called on
    alpha,        \* locals of alpha_beta_player / arguments of *_value
    beta,
    best_score,
    best_action,
    v,            \* the last value a *_value call returned
    idx,          \* position of the root loop in game.actions(state)
    trace,        \* what the evaluations so far report
    typed,        \* manual_player: the text input() returned this turn
    prompts,      \* manual_player: the number of input() calls
    printed,      \* manual_player: the number of 'invalid action!!' lines
    depth,        \* alpha_beta_cutoff_player: the depth argument, if given
    searchCalls   \* the calls of game.alpha_beta_cutoff_search

search == <<player, toMoveLog, alpha, beta, best_score, best_action, v, idx, trace>>

io == <<typed, prompts, printed, depth, searchCalls>>

vars == <<state, call, pc, ret, search, io>>

Fresh ==
    /\ call = "none"
    /\ pc = "idle"
    /\ ret = None
    /\ player = "X"
    /\ toMoveLog = {}
    /\ alpha = NegInf
    /\ beta = PosInf
    /\ best_score = NegInf
    /\ best_action = None
    /\ v = NegInf
    /\ idx = 1
    /\ trace = NoTrace
    /\ typed = <<>>
    /\ prompts = 0
    /\ printed = 0
    /\ depth = [given |-> FALSE, val |-> 0]
    /\ searchCalls = <<>>

\* Before a call on a game that honours the Game Interface: every state
\* without actions is terminal.
Init ==
    /\ IsGame(state, MaxNodes, FALSE)
    /\ Fresh

\* minmax_player(game, state), lines 45-67.
MinmaxCall ==
    /\ call = "none"
    /\ call' = "minmax"
    /\ player' = to_move(state)
    /\ toMoveLog' = toMoveLog \cup {state}
    /\ \E r \in {minmax_player(state)} :
          /\ pc' = r.status
          /\ ret' = r.ret
          /\ trace' = r.trace
    /\ UNCHANGED <<state, alpha, beta, best_score, best_action, v, idx, io>>

\* alpha_beta_player(game, state), lines 90-138.
AlphaBetaCall ==
    /\ call = "none"
    /\ call' = "alpha_beta"
    /\ player' = to_move(state)
    /\ toMoveLog' = toMoveLog \cup {state}
    /\ \E loc \in {alpha_beta_player(state)} :
           /\ alpha' = loc.alpha
           /\ beta' = loc.beta
           /\ best_score' = loc.best_score
           /\ best_action' = loc.best_action
           /\ v' = loc.v
           /\ trace' = loc.trace
           /\ ret' = loc.best_action
    /\ idx' = Len(actions(state)) + 1
    /\ pc' = "returned"
    /\ UNCHANGED <<state, io>>

Next == MinmaxCall \/ AlphaBetaCall

Spec == Init /\ [][Next]_vars

(***************************************************************************)
(* The same calls on games that break the Game Interface's contract: some  *)
(* state is not terminal and has no legal action.                          *)
(***************************************************************************)
InitBroken ==
    /\ IsGame(state, MaxNodes, TRUE)
    /\ Fresh

SpecBroken == InitBroken /\ [][Next]_vars

(***************************************************************************)
(* alpha_beta_player one root iteration at a time, and its max_value and   *)
(* min_value called on a state with a window of the caller's choice.       *)
(***************************************************************************)
WindowBounds == {NegInf, PosInf} \cup Utilities \cup {0 - u : u \in Utilities}

\* The states the value functions are called on: successors, so games of at
\* most MaxNodes - 1 states.
InitLoop ==
    /\ IsGame(state, MaxNodes - 1, FALSE)
    /\ Fresh

\* alpha_beta_player(game, state) up to its root loop, lines 103 and 127-130.
ABStart ==
    /\ call = "none"
    /\ call' = "alpha_beta"
    /\ pc' = "loop"
    /\ player' = to_move(state)
    /\ toMoveLog' = toMoveLog \cup {state}
    /\ alpha' = ab_root_init.alpha
    /\ beta' = ab_root_init.beta
    /\ best_score' = ab_root_init.best_score
    /\ best_action' = ab_root_init.best_action
    /\ idx' = 1
    /\ UNCHANGED <<state, ret, v, trace, io>>

\* One iteration of `for a in game.actions(state)`, lines 131-136.
ABIter ==
    /\ call = "alpha_beta"
    /\ pc = "loop"
    /\ idx <= Len(actions(state))
    /\ \E loc \in {ab_root_step(state, player,
                                  [alpha |-> alpha, beta |-> beta,
                                   best_score |-> best_score,
                                   best_action |-> best_action,
                                   v |-> v, trace |-> trace], idx)} :
           /\ alpha' = loc.alpha
           /\ beta' = loc.beta
           /\ best_score' = loc.best_score
           /\ best_action' = loc.best_action
           /\ v' = loc.v
           /\ trace' = loc.trace
    /\ idx' = idx + 1
    /\ UNCHANGED <<state, call, pc, ret, player, toMoveLog, io>>

\* `return best_action`, line 138.
ABReturn ==
    /\ call = "alpha_beta"
    /\ pc = "loop"
    /\ idx > Len(actions(state))
    /\ pc' = "returned"
    /\ ret' = best_action
    /\ UNCHANGED <<state, call, search, io>>

\* min_value(state, alpha, beta) of alpha_beta_player, lines 116-125.  The
\* players alternate, so the opponent of `player` moves at state.
MinValueCall ==
    /\ call = "none"
    /\ \E pl \in {Other(to_move(state))}, al \in WindowBounds, be \in WindowBounds :
          /\ al < be
          /\ player' = pl
          /\ alpha' = al
          /\ beta' = be
          /\ v' = ab_min_value(state, pl, al, be).v
    /\ call' = "min_value"
    /\ pc' = "returned"
    /\ UNCHANGED <<state, ret, toMoveLog, best_score, best_action, idx, trace, io>>

\* max_value(state, alpha, beta) of alpha_beta_player, lines 105-114, on a
\* state at which `player` moves.
MaxValueCall ==
    /\ call = "none"
    /\ \E pl \in {to_move(state)}, al \in WindowBounds, be \in WindowBounds :
          /\ al < be
          /\ player' = pl
          /\ alpha' = al
          /\ beta' = be
          /\ v' = ab_max_value(state, pl, al, be).v
    /\ call' = "max_value"
    /\ pc' = "returned"
    /\ UNCHANGED <<state, ret, toMoveLog, best_score, best_action, idx, trace, io>>

NextLoop == ABStart \/ ABIter \/ ABReturn \/ MinValueCall \/ MaxValueCall

SpecLoop == InitLoop /\ [][NextLoop]_vars

(***************************************************************************)
(* The players that do not search: random_player, manual_player and        *)
(* alpha_beta_cutoff_player.  They read only game.actions(state), so the   *)
(* games are one move deep.                                                *)
(***************************************************************************)
InitIO ==
    /\ \E n \in 1..MaxNodes :
          state = Labelled([k \in 1..(n - 1) |-> <<>>], [k \in 1..n |-> 0], 1, "X")
    /\ Fresh

\* random_player(game, state), lines 80-88: np.random.choice(0) raises
\* ValueError, np.random.choice(n) draws from 0 .. n-1.
RandomCall ==
    /\ call = "none"
    /\ call' = "random"
    /\ LET legal_moves == actions(state)
           num_legal_moves == Len(legal_moves)
       IN  IF num_legal_moves = 0
           THEN pc' = "raised" /\ ret' = None
           ELSE \E random_move \in 0..(num_legal_moves - 1) :
                    /\ pc' = "returned"
                    /\ ret' = Some(actions(state)[random_move + 1])
    /\ UNCHANGED <<state, search, io>>

\* manual_player(game, state) up to its loop, lines 30-31.
ManualStart ==
    /\ call = "none"
    /\ call' = "manual"
    /\ pc' = "loop"
    /\ UNCHANGED <<state, ret, search, io>>

\* `action = input(...)`, line 33: some text is typed.
ManualInput ==
    /\ call = "manual"
    /\ pc = "loop"
    /\ prompts < MaxPrompts
    /\ \E inp \in Inputs : typed' = inp
    /\ prompts' = prompts + 1
    /\ pc' = "try"
    /\ UNCHANGED <<state, call, ret, search, printed, depth, searchCalls>>

\* The rest of the loop's turn, lines 34-43; the text of a rejected turn is
\* never read again.
ManualTry ==
    /\ call = "manual"
    /\ pc = "try"
    /\ \E m \in {manual_try(state, typed)} :
          /\ pc' = m.pc
          /\ ret' = m.ret
          /\ printed' = printed + m.printed
          /\ typed' = IF m.pc = "returned" THEN typed ELSE <<>>
    /\ UNCHANGED <<state, call, search, prompts, depth, searchCalls>>

\* alpha_beta_cutoff_player(game, state[, depth]), line 167.
CutoffCall ==
    /\ call = "none"
    /\ call' = "cutoff"
    /\ \E given \in BOOLEAN, d \in 0..MaxDepthArg, r \in SearchResults(state) :
          /\ given \/ d = 0
          /\ depth' = [given |-> given, val |-> d]
          /\ searchCalls' = Append(searchCalls,
                                   [state |-> state, depth |-> cutoff_depth(given, d),
                                    result |-> r])
          /\ ret' = r
    /\ pc' = "returned"
    /\ UNCHANGED <<state, search, typed, prompts, printed>>

NextIO == RandomCall \/ ManualStart \/ ManualInput \/ ManualTry \/ CutoffCall

SpecIO == InitIO /\ [][NextIO]_vars

(***************************************************************************)
(* Reference notions the properties are stated with.                       *)
(***************************************************************************)
SetMax(S) == CHOOSE x \in S : \A y \in S : y <= x

SetMin(S) == CHOOSE x \in S : \A y \in S : x <= y

RECURSIVE TrueValue(_, _, _)
\* The minimax value of s for pl, the maximising side moving at s iff
\* maximising: utilities at terminal states, else the best successor value.
TrueValue(s, pl, maximising) ==
    IF s.term
    THEN utility(s, pl)
    ELSE LET vals == {TrueValue(s.kids[k], pl, ~maximising) : k \in 1..Len(s.kids)}
         IN  IF maximising THEN SetMax(vals) ELSE SetMin(vals)

\* The minimax value of the k-th root action for the player moving at s.
ActionValue(s, k) == TrueValue(s.kids[k], to_move(s), FALSE)

\* The first of the root actions 1 .. n of s with the greatest minimax value.
FirstBest(s, n) ==
    CHOOSE i \in 1..n :
        /\ \A j \in 1..n : ActionValue(s, j) <= ActionValue(s, i)
        /\ \A j \in 1..(i - 1) : ActionValue(s, j) < ActionValue(s, i)

RECURSIVE TerminalUtilities(_, _)
\* The utilities for pl of the terminal states at or below s.
TerminalUtilities(s, pl) ==
    IF s.term
    THEN {utility(s, pl)}
    ELSE UNION {TerminalUtilities(s.kids[k], pl) : k \in 1..Len(s.kids)}

IsDeadEnd(s) == ~s.term /\ Len(s.kids) = 0

RECURSIVE HasDeadEnd(_)
HasDeadEnd(s) ==
    ~s.term /\ (Len(s.kids) = 0 \/ \E k \in 1..Len(s.kids) : HasDeadEnd(s.kids[k]))

Returned(f) == call = f /\ pc = "returned"

(***************************************************************************)
(* C1: on every game tree and non-terminal state, alpha_beta_player        *)
(* returns exactly the action minmax_player returns, ties among the best   *)
(* root actions included.                                                  *)
(***************************************************************************)
C1_AlphaBetaReturnsMinmaxAction ==
    (Returned("alpha_beta") /\ ~terminal_test(state))
        => \E mm \in {minmax_player(state)} :
              /\ mm.status = "returned"
              /\ ret = mm.ret

\* alpha_beta_player has returned, after a cutoff, on a state whose first
\* two best root actions tie.
C1_Witness ==
    /\ Returned("alpha_beta")
    /\ Len(actions(state)) >= 3
    /\ trace.cuts > 0
    /\ \E i, j \in 1..Len(actions(state)) :
          /\ i < j
          /\ ActionValue(state, i) = ActionValue(state, j)
          /\ \A k \in 1..Len(actions(state)) : ActionValue(state, k) <= ActionValue(state, i)
          /\ ret = Some(actions(state)[i])

(***************************************************************************)
(* C2: minmax_player returns the action whose successor has the greatest   *)
(* minimax value, and among several such actions the first in the order    *)
(* of actions(state).                                                      *)
(***************************************************************************)
C2_MinmaxReturnsFirstBest ==
    (call = "minmax" /\ ~terminal_test(state))
        => /\ pc = "returned"
           /\ ret = Some(actions(state)[FirstBest(state, Len(actions(state)))])

\* minmax_player has returned the first of several actions that all lead,
\* some moves later, to the least utility of the game.
C2_Witness ==
    /\ Returned("minmax")
    /\ Len(actions(state)) >= 2
    /\ \A k \in 1..Len(actions(state)) :
          /\ ActionValue(state, k) = SetMin(TerminalUtilities(state, to_move(state)))
          /\ ~state.kids[k].term
    /\ ret = Some(actions(state)[1])

(***************************************************************************)
(* C3: when minmax_player or alpha_beta_player meets a state that is not   *)
(* terminal and has no action, at the root or during the recursion, the    *)
(* call ends in an error and returns nothing.                              *)
(***************************************************************************)
\* minmax_player visits every state of the tree; alpha_beta_player calls
\* min_value on every successor of the root.
MeetsDeadEnd ==
    \/ call = "minmax" /\ HasDeadEnd(state)
    \/ call = "alpha_beta"
         /\ (IsDeadEnd(state) \/ \E k \in 1..Len(state.kids) : IsDeadEnd(state.kids[k]))

C3_DeadEndRaises == MeetsDeadEnd => pc = "raised"

(***************************************************************************)
(* C4 as claimed: alpha_beta_player makes at most as many game.utility     *)
(* calls as minmax_player, and strictly fewer whenever an early return     *)
(* (v >= beta, v <= alpha) fires.                                          *)
(***************************************************************************)
C4_FewerWheneverCutoffFires ==
    Returned("alpha_beta")
        => \E mm \in {minmax_player(state)} :
              /\ trace.evals <= mm.trace.evals
              /\ trace.cuts > 0 => trace.evals < mm.trace.evals

(***************************************************************************)
(* C4 amended: at most as many game.utility calls as minmax_player, and    *)
(* strictly fewer whenever an early return fires while an action of that   *)
(* state with a terminal state below it is still unexplored.               *)
(***************************************************************************)
C4_FewerWheneverSiblingsSkipped ==
    Returned("alpha_beta")
        => \E mm \in {minmax_player(state)} :
              /\ trace.evals <= mm.trace.evals
              /\ trace.pruned > 0 => trace.evals < mm.trace.evals

\* alpha_beta_player has returned after early returns that skipped siblings.
C4_Witness ==
    /\ Returned("alpha_beta")
    /\ trace.cuts > 0
    /\ trace.pruned > 0
    /\ trace.evals < minmax_player(state).trace.evals

(***************************************************************************)
(* C5: whatever a player returns is an element of game.actions(state),     *)
(* never None.                                                             *)
(***************************************************************************)
C5_ReturnsLegalAction ==
    pc = "returned"
        => /\ ret.kind = "action"
           /\ InActions(ret.val, actions(state))

(***************************************************************************)
(* C6 as claimed: where the player to move has an action leading directly  *)
(* to a terminal state of the greatest achievable utility, minmax_player   *)
(* and alpha_beta_player return such an immediately winning action.        *)
(***************************************************************************)
BestUtility(s) == SetMax(TerminalUtilities(s, to_move(s)))

WinsAtOnce(s, k) ==
    s.kids[k].term /\ utility(s.kids[k], to_move(s)) = BestUtility(s)

OneMoveFromWin(s) == ~s.term /\ \E k \in 1..Len(s.kids) : WinsAtOnce(s, k)

C6_ReturnsImmediateWin ==
    ((Returned("minmax") \/ Returned("alpha_beta")) /\ OneMoveFromWin(state))
        => \E k \in 1..Len(state.kids) :
              /\ ret = Some(actions(state)[k])
              /\ WinsAtOnce(state, k)
              /\ ActionValue(state, k) = BestUtility(state)

(***************************************************************************)
(* C6 amended: in such a state both return the first action, in the order  *)
(* of actions(state), whose minimax value is the greatest achievable       *)
(* utility; it is the immediately winning action unless an earlier action  *)
(* already forces that utility.                                            *)
(***************************************************************************)
C6_ReturnsFirstWinningAction ==
    ((call = "minmax" \/ call = "alpha_beta") /\ OneMoveFromWin(state))
        => \E k \in 1..Len(state.kids) :
              /\ pc = "returned"
              /\ ret = Some(actions(state)[k])
              /\ ActionValue(state, k) = BestUtility(state)
              /\ \A j \in 1..(k - 1) : ActionValue(state, j) < BestUtility(state)
              /\ \A j \in 1..Len(state.kids) : WinsAtOnce(state, j) => k <= j

\* alpha_beta_player has returned the immediately winning action, which is
\* not the first action.
C6_Witness ==
    /\ Returned("alpha_beta")
    /\ OneMoveFromWin(state)
    /\ \E k \in 2..Len(state.kids) : WinsAtOnce(state, k) /\ ret = Some(actions(state)[k])
    /\ Cardinality(TerminalUtilities(state, player)) >= 2

(***************************************************************************)
(* C9: in one call of minmax_player or alpha_beta_player every             *)
(* game.utility call passes game.to_move(root state), whoever is to move   *)
(* at the terminal state, and game.to_move is called on the root only.     *)
(***************************************************************************)
C9_UtilityForRootPlayer ==
    (call = "minmax" \/ call = "alpha_beta")
        => /\ player = to_move(state)
           /\ trace.ups \subseteq {to_move(state)}
           /\ toMoveLog = {state}

\* A search has evaluated terminal states at which the root's player moves
\* and terminal states at which the opponent moves.
C9_Witness ==
    /\ Returned("alpha_beta")
    /\ trace.evals = MaxNodes - 2
    /\ trace.ups = {to_move(state)}
    /\ \E k \in 1..Len(state.kids) : state.kids[k].term
    /\ \E k \in 1..Len(state.kids) :
          /\ ~state.kids[k].term
          /\ \A j \in 1..Len(state.kids[k].kids) : state.kids[k].kids[j].term

(***************************************************************************)
(* C7: manual_player prompts again after every text that does not parse    *)
(* into a tuple of integers or parses to a tuple outside actions(state),   *)
(* lets no such text raise or end the loop, and returns at the first text  *)
(* that parses to an element of actions(state), returning that element.    *)
(***************************************************************************)
LegalText(str, s) == ParseMove(str).ok /\ InActions(ParseMove(str).val, actions(s))

ManualTurn ==
    (call = "manual" /\ pc = "try")
        => IF LegalText(typed, state)
           THEN /\ pc' = "returned"
                /\ ret' = Some(ParseMove(typed).val)
                /\ \E k \in 1..Len(actions(state)) : ret'.val = actions(state)[k]
                /\ printed' = printed
           ELSE /\ pc' = "loop"
                /\ ret' = None
                /\ printed' = printed + 1

ManualStays == (call = "manual" /\ pc = "returned") => (pc' = "returned" /\ ret' = ret)

C7_ManualLoopsUntilLegal ==
    /\ [](call = "manual" => pc \in {"loop", "try", "returned"})
    /\ [][ManualTurn /\ ManualStays]_vars

\* manual_player has returned a move typed with blanks or a sign after one
\* rejected text.
C7_Witness ==
    /\ Returned("manual")
    /\ prompts = 2
    /\ printed = 1
    /\ Len(typed) = MaxInputLen
    /\ \E k \in 1..Len(typed) : typed[k] \in {" ", "-"}
    /\ InActions(ret.val, actions(state))

(***************************************************************************)
(* C8: alpha_beta_cutoff_player without a depth argument runs the game's   *)
(* alpha-beta cutoff search on the unchanged state with depth limit 3,     *)
(* with a depth argument k with depth limit k, and returns the search's    *)
(* result unchanged.                                                       *)
(***************************************************************************)
C8_CutoffPassesDepth ==
    call = "cutoff"
        => /\ pc = "returned"
           /\ Len(searchCalls) = 1
           /\ searchCalls[1].state = state
           /\ searchCalls[1].depth = (IF depth.given THEN depth.val ELSE 3)
           /\ ret = searchCalls[1].result

\* The player has been called with a depth other than the default and has
\* returned the action the search chose.
C8_Witness ==
    /\ Returned("cutoff")
    /\ depth.given
    /\ depth.val = MaxDepthArg
    /\ searchCalls[1].depth = MaxDepthArg
    /\ ret.kind = "action"

(***************************************************************************)
(* C10: for a window alpha < beta the value r of min_value(s, alpha, beta) *)
(* and of max_value(s, alpha, beta) relates to the minimax value m of s:   *)
(* r = m if alpha < m < beta, r <= alpha if m <= alpha, r >= beta if       *)
(* m >= beta.  In the root loop best_score equals alpha after each         *)
(* iteration, and a later root action is adopted only if its minimax value *)
(* is strictly greater than that of every earlier one: best_action is the  *)
(* first best of the actions searched so far.                              *)
(***************************************************************************)
WindowRelation(r, m, al, be) ==
    /\ (al < m /\ m < be) => r = m
    /\ m <= al => r <= al
    /\ m >= be => r >= be

C10_WindowAndRootLoop ==
    /\ call = "min_value"
         => WindowRelation(v, TrueValue(state, player, FALSE), alpha, beta)
    /\ call = "max_value"
         => WindowRelation(v, TrueValue(state, player, TRUE), alpha, beta)
    /\ (call = "alpha_beta" /\ idx > 1)
         => /\ best_score = alpha
            /\ best_action = Some(actions(state)[FirstBest(state, idx - 1)])
            /\ best_score = ActionValue(state, FirstBest(state, idx - 1))

\* min_value has returned, within a finite window, a value that is not the
\* minimax value of its state.
C10_Witness ==
    /\ call = "min_value"
    /\ NegInf < alpha
    /\ beta < PosInf
    /\ v # TrueValue(state, player, FALSE)
    /\ TrueValue(state, player, FALSE) < alpha

=============================================================================
